---- MODULE Spec2Model ----
(***************************************************************************)
(* A model of the latent-variable bookkeeping of hssl:                     *)
(*   - the Variational registry            (src/hssl/network.py)           *)
(*   - the count model STD                 (src/hssl/network.py)           *)
(*   - the factor bookkeeping of ST        (src/hssl/model/experiment/st.py)*)
(*   - the label pooling of ST.model       (src/hssl/model/experiment/st.py)*)
(*   - ST.model / ST.guide over pyro's     (src/hssl/model/experiment/st.py)*)
(*     parameter store                                                     *)
(*   - the ST.factors property             (src/hssl/model/experiment/st.py)*)
(*   - the encode scatter of ST.guide      (src/hssl/model/experiment/st.py)*)
(* Each part has its own specification over the shared variables.          *)
(***************************************************************************)
EXTENDS Integers, Sequences, FiniteSets, TLC

VARIABLES
    latents,    \* Variational._latents: the list of registered ids
    attrs,      \* the object's attributes set by setattr: name -> value
    passed,     \* history: id -> the triple passed when it was registered
    ret,        \* the last call on the registry / count model and its outcome
    factors,    \* ST.__factors: id -> (bias, default)
    chain,      \* ST.__factors_counter: the ids chained in front of the count
    count,      \* ST.__factors_counter: the next value of it.count()
    hist,       \* history: the add_factor / remove_factor calls made so far
    std,        \* the STD object under construction / constructed
    label,      \* _compute_sample_params: the label map of one slide
    rim,        \* _compute_sample_params: the scaled proportions of one slide
    pooled,     \* _compute_sample_params: its return value
    store,      \* pyro's parameter store: name -> the parameters kept there
    trace,      \* the last run of ST.model / ST.guide: its sites and modules
    view,       \* the dictionary a caller got from ST.factors, if any
    enc         \* the last call of ST.guide's encode and its result

varsV == <<latents, attrs, passed, ret>>
varsST == <<factors, chain, count, hist>>
varsSTD == <<std>>
varsPool == <<label, rim, pooled>>
varsPyro == <<store, trace>>
varsView == <<view>>
varsEnc == <<enc>>
vars == <<latents, attrs, passed, ret, factors, chain, count, hist, std,
          label, rim, pooled, store, trace, view, enc>>

None == [kind |-> "None"]
PyBool(b) == [kind |-> "bool", b |-> b]

(***************************************************************************)
(* Sums over finite sets and index ranges.                                 *)
(***************************************************************************)
RECURSIVE SumOver(_, _)
SumOver(S, f) ==
    IF S = {} THEN 0
    ELSE LET e == CHOOSE e \in S : TRUE
         IN f[e] + SumOver(S \ {e}, f)

RECURSIVE SumSeq(_)
SumSeq(s) == IF s = <<>> THEN 0 ELSE Head(s) + SumSeq(Tail(s))

SeqToSet(s) == {s[i] : i \in 1..Len(s)}

(***************************************************************************)
(* Variational (network.py 17-50)                                          *)
(***************************************************************************)

\* batch_fraction is bf / BFDen for bf in 0..BFDen; costs are kept times BFDen.
BFDen == 2

\* The ids the callers register: "x_p" and "x_is_global" are also the names
\* of the attributes that hold the prior and the flag of "x".
IdSet == {"x", "x_p", "x_is_global", "y"}

\* A Variable holds a sampled value and its own distribution q.
Variables ==
    {[kind |-> "Variable", value |-> 1, q_loc |-> 1],
     [kind |-> "Variable", value |-> 2, q_loc |-> 2]}

\* A prior distribution.
Priors == {[kind |-> "Distribution", loc |-> 0]}

\* Normal.log_prob up to scale and constant: -(value - loc)^2.
log_prob(loc, value) == 0 - (value - loc) * (value - loc)

setattr(at, name, v) ==
    [n \in DOMAIN at \cup {name} |-> IF n = name THEN v ELSE at[n]]

\* _register_latent on the registry (ls, at): the registry after the call
\* and the error raised.
_register_latent_always(ls, at, variable, prior, id, is_global) ==
    [latents |-> Append(ls, id),
     attrs |-> setattr(setattr(setattr(at, id, variable),
                               id \o "_p", prior),
                       id \o "_is_global", PyBool(is_global)),
     err |-> "none"]

_register_latent(ls, at, variable, prior, id, is_global) ==
    IF id \in SeqToSet(ls)
    THEN [latents |-> ls, attrs |-> at, err |-> "RuntimeError"]
    ELSE [latents |-> Append(ls, id),
          attrs |-> setattr(setattr(setattr(at, id, variable),
                                    id \o "_p", prior),
                            id \o "_is_global", PyBool(is_global)),
          err |-> "none"]

_get_latent(at, latent_id) ==
    <<at[latent_id], at[latent_id \o "_p"], at[latent_id \o "_is_global"]>>

\* Python truthiness of `g`: a bool is itself, any other object is true.
Truthy(g) == IF g.kind = "bool" THEN g.b ELSE TRUE

\* x.distribution.log_prob(x.value) - p.log_prob(x.value) is defined when x
\* is a Variable and p a Distribution.
TermDefined(tr) == tr[1].kind = "Variable" /\ tr[2].kind = "Distribution"

Term(tr) ==
    log_prob(tr[1].q_loc, tr[1].value) - log_prob(tr[2].loc, tr[1].value)

Weight_swapped(g, bf) == IF Truthy(g) THEN BFDen ELSE bf

Weight(g, bf) == IF Truthy(g) THEN bf ELSE BFDen

\* complexity_cost(bf / BFDen), times BFDen.
complexity_cost(ls, at, bf) ==
    SumSeq([i \in 1..Len(ls) |->
              LET tr == _get_latent(at, ls[i])
              IN Term(tr) * Weight(tr[3], bf)])

Init ==
    /\ latents = <<>>
    /\ attrs = [n \in {} |-> None]
    /\ passed = [n \in {} |-> None]
    /\ ret = [op |-> "__init__", err |-> "none", id |-> "", bf |-> 0,
              val |-> None]
    /\ factors = [n \in {} |-> None]
    /\ chain = <<>>
    /\ count = 0
    /\ hist = <<>>
    /\ std = None
    /\ label = None
    /\ rim = None
    /\ pooled = None
    /\ store = [n \in {} |-> None]
    /\ trace = None
    /\ view = None
    /\ enc = None

Register(variable, prior, id, is_global) ==
    LET r == _register_latent(latents, attrs, variable, prior, id, is_global)
    IN /\ latents' = r.latents
       /\ attrs' = r.attrs
       /\ passed' = IF r.err = "none"
                    THEN [n \in DOMAIN passed \cup {id} |->
                            IF n = id
                            THEN <<variable, prior, PyBool(is_global)>>
                            ELSE passed[n]]
                    ELSE passed
       /\ ret' = [op |-> "_register_latent", err |-> r.err, id |-> id,
                  bf |-> 0, val |-> None]

GetLatent(id) ==
    /\ id \in SeqToSet(latents)
    /\ ret' = [op |-> "_get_latent", err |-> "none", id |-> id, bf |-> 0,
               val |-> _get_latent(attrs, id)]
    /\ UNCHANGED <<latents, attrs, passed>>

ComplexityCost(bf) ==
    /\ ret' = IF \A i \in 1..Len(latents) :
                    TermDefined(_get_latent(attrs, latents[i]))
              THEN [op |-> "complexity_cost", err |-> "none", id |-> "",
                    bf |-> bf, val |-> complexity_cost(latents, attrs, bf)]
              ELSE [op |-> "complexity_cost", err |-> "AttributeError",
                    id |-> "", bf |-> bf, val |-> None]
    /\ UNCHANGED <<latents, attrs, passed>>

NextV ==
    \/ /\ \E variable \in Variables, prior \in Priors, id \in IdSet,
              is_global \in BOOLEAN :
              Register(variable, prior, id, is_global)
       /\ UNCHANGED <<varsST, varsSTD, varsPool, varsPyro, varsView, varsEnc>>
    \/ /\ \E id \in IdSet : GetLatent(id)
       /\ UNCHANGED <<varsST, varsSTD, varsPool, varsPyro, varsView, varsEnc>>
    \/ /\ \E bf \in 0..BFDen : ComplexityCost(bf)
       /\ UNCHANGED <<varsST, varsSTD, varsPool, varsPyro, varsView, varsEnc>>

SpecV == Init /\ [][NextV]_vars

Registered == SeqToSet(latents)

StoredTerm == [id \in Registered |-> Term(_get_latent(attrs, id))]

CostReturned == ret.op = "complexity_cost" /\ ret.err = "none"

NoDuplicates(s) == \A i, j \in 1..Len(s) : s[i] = s[j] => i = j

C5_GetLatentReturnsRegisteredTriple ==
    \A id \in Registered : _get_latent(attrs, id) = passed[id]

(***************************************************************************)
(* ST: the factor bookkeeping (st.py 25-61)                                *)
(***************************************************************************)

\* The number of add_factor / remove_factor calls followed.
MaxOps == 7

\* What callers pass to add_factor: nothing (None) or a (bias, default) pair.
FactorArgs ==
    {None, [kind |-> "tuple", bias |-> 1,
            default |-> [kind |-> "Tensor", data |-> "v"]]}

\* next(self.__factors_counter): the counter is the ids chained in front of
\* it.count(), most recently chained first.
counter_next(ch, c) ==
    IF ch # <<>>
    THEN [n |-> Head(ch), chain |-> Tail(ch), count |-> c]
    ELSE [n |-> c, chain |-> ch, count |-> c + 1]

add_factor(fs, ch, c, factor) ==
    LET f == IF factor = None
             THEN [kind |-> "tuple", bias |-> 0, default |-> None]
             ELSE factor
        nx == counter_next(ch, c)
    IN IF nx.n \in DOMAIN fs
       THEN [factors |-> fs, chain |-> nx.chain, count |-> nx.count,
             n |-> nx.n, err |-> "AssertionError"]
       ELSE [factors |-> [k \in DOMAIN fs \cup {nx.n} |->
                            IF k = nx.n THEN f ELSE fs[k]],
             chain |-> nx.chain, count |-> nx.count,
             n |-> nx.n, err |-> "none"]

remove_factor_no_recycling(fs, ch, c, n) ==
    IF n \notin DOMAIN fs
    THEN [factors |-> fs, chain |-> ch, count |-> c, err |-> "ValueError"]
    ELSE [factors |-> [k \in DOMAIN fs \ {n} |-> fs[k]],
          chain |-> ch, count |-> c, err |-> "none"]

remove_factor_chains_on_failure(fs, ch, c, n) ==
    IF n \notin DOMAIN fs
    THEN [factors |-> fs, chain |-> <<n>> \o ch, count |-> c,
          err |-> "ValueError"]
    ELSE [factors |-> [k \in DOMAIN fs \ {n} |-> fs[k]],
          chain |-> <<n>> \o ch, count |-> c, err |-> "none"]

remove_factor_chains_behind(fs, ch, c, n) ==
    IF n \notin DOMAIN fs
    THEN [factors |-> fs, chain |-> ch, count |-> c, err |-> "ValueError"]
    ELSE [factors |-> [k \in DOMAIN fs \ {n} |-> fs[k]],
          chain |-> ch \o <<n>>, count |-> c, err |-> "none"]

remove_factor(fs, ch, c, n) ==
    IF n \notin DOMAIN fs
    THEN [factors |-> fs, chain |-> ch, count |-> c, err |-> "ValueError"]
    ELSE [factors |-> [k \in DOMAIN fs \ {n} |-> fs[k]],
          chain |-> <<n>> \o ch, count |-> c, err |-> "none"]

AddFactor(factor) ==
    LET r == add_factor(factors, chain, count, factor)
    IN /\ Len(hist) < MaxOps
       /\ factors' = r.factors
       /\ chain' = r.chain
       /\ count' = r.count
       /\ hist' = Append(hist, [op |-> "add_factor", n |-> r.n,
                                err |-> r.err])

RemoveFactor(n) ==
    LET r == remove_factor(factors, chain, count, n)
    IN /\ Len(hist) < MaxOps
       /\ factors' = r.factors
       /\ chain' = r.chain
       /\ count' = r.count
       /\ hist' = Append(hist, [op |-> "remove_factor", n |-> n,
                                err |-> r.err])

NextST ==
    \/ /\ \E factor \in FactorArgs : AddFactor(factor)
       /\ UNCHANGED <<varsV, varsSTD, varsPool, varsPyro, varsView, varsEnc>>
    \/ /\ \E n \in 0..count : RemoveFactor(n)
       /\ UNCHANGED <<varsV, varsSTD, varsPool, varsPyro, varsView, varsEnc>>

SpecST == Init /\ [][NextST]_vars

Active == DOMAIN factors

Added(e) == e.op = "add_factor" /\ e.err = "none"

Removed(e) == e.op = "remove_factor" /\ e.err = "none"

RemovedId(e, n) == Removed(e) /\ e.n = n

\* The calls so far are add, add, remove(0), add, or a prefix of that.
ScenarioPrefix(k) ==
    /\ Len(hist) = k
    /\ k >= 1 => hist[1].op = "add_factor"
    /\ k >= 2 => hist[2].op = "add_factor"
    /\ k >= 3 => hist[3].op = "remove_factor" /\ hist[3].n = 0
    /\ k >= 4 => hist[4].op = "add_factor"

\* C2: an add_factor directly after a successful remove_factor(n) assigns
\* the id n; the calls add, add, remove(0), add leave the active ids {0},
\* {0,1}, {1}, {0,1}, the last call assigning the id 0.
C2_RemovedIdIsReassigned ==
    /\ \A i \in 1..(Len(hist) - 1) :
          (Removed(hist[i]) /\ hist[i + 1].op = "add_factor") =>
              (Added(hist[i + 1]) /\ hist[i + 1].n = hist[i].n)
    /\ ScenarioPrefix(1) => Active = {0}
    /\ ScenarioPrefix(2) => Active = {0, 1}
    /\ ScenarioPrefix(3) => Active = {1} /\ Removed(hist[3])
    /\ ScenarioPrefix(4) => Active = {0, 1} /\ RemovedId(hist[3], 0)
                               /\ Added(hist[4]) /\ hist[4].n = 0

\* The calls add, add, remove(0), add have been made.
C2_Witness == ScenarioPrefix(4) /\ Added(hist[4])

\* C3: remove_factor(n) with n not active fails with a ValueError and
\* changes neither the active factors nor the allocation sequence.
C3_FailedRemovalChangesNothing ==
    [][(/\ Len(hist') = Len(hist) + 1
        /\ hist'[Len(hist')].op = "remove_factor"
        /\ hist'[Len(hist')].n \notin Active) =>
            /\ hist'[Len(hist')].err = "ValueError"
            /\ factors' = factors
            /\ chain' = chain
            /\ count' = count]_vars

\* A removal has just failed while factors are active and an id is waiting
\* to be reassigned.
C3_Witness ==
    /\ hist # <<>>
    /\ hist[Len(hist)].op = "remove_factor"
    /\ hist[Len(hist)].err = "ValueError"
    /\ Active # {}
    /\ chain # <<>>
    /\ Len(hist) < MaxOps

\* The ids removed before call i and not assigned again since.
Released(i) ==
    {n \in 0..MaxOps :
        \E j \in 1..(i - 1) :
            /\ RemovedId(hist[j], n)
            /\ \A k \in (j + 1)..(i - 1) : ~(Added(hist[k]) /\ hist[k].n = n)}

LastRemoval(n, i) ==
    CHOOSE j \in 1..(i - 1) :
        /\ RemovedId(hist[j], n)
        /\ \A k \in (j + 1)..(i - 1) : ~RemovedId(hist[k], n)

\* C6: add_factor hands back the released ids most recently removed first,
\* and assigns a fresh id, greater than every id assigned before, only when
\* no released id is left.
C6_ReleasedIdsReassignedLifo ==
    \A i \in 1..Len(hist) :
        hist[i].op = "add_factor" =>
            /\ Added(hist[i])
            /\ IF Released(i) # {}
               THEN /\ hist[i].n \in Released(i)
                    /\ \A m \in Released(i) :
                          LastRemoval(m, i) <= LastRemoval(hist[i].n, i)
               ELSE \A j \in 1..(i - 1) :
                        hist[j].op = "add_factor" => hist[j].n < hist[i].n

\* Two released ids were handed back, the later removed first, and then a
\* fresh id was assigned.
C6_Witness ==
    \E i \in 1..(Len(hist) - 2) :
        /\ Cardinality(Released(i)) >= 2
        /\ Added(hist[i]) /\ Added(hist[i + 1]) /\ Added(hist[i + 2])
        /\ Released(i + 2) = {}

\* The call that a step appends to the history.
LastCall(h) == h[Len(h)]

\* C17: the assertion of add_factor never fails: every add_factor draws an
\* id that is not active, adds exactly that id to the active factors and
\* leaves the other factors as they were.
C17_AddFactorNeverOverwrites ==
    [][(Len(hist') = Len(hist) + 1 /\ LastCall(hist').op = "add_factor") =>
            /\ LastCall(hist').err = "none"
            /\ LastCall(hist').n \notin Active
            /\ DOMAIN factors' = Active \cup {LastCall(hist').n}
            /\ Cardinality(DOMAIN factors') = Cardinality(Active) + 1
            /\ \A k \in Active : factors'[k] = factors[k]]_vars

\* An id was removed, assigned again, removed again and assigned again, with
\* a failed removal in between.
C17_Witness ==
    \E i, j, k, l, m \in 1..Len(hist) :
        /\ i < j /\ j < k /\ k < l /\ l < m
        /\ Removed(hist[i])
        /\ Added(hist[j]) /\ hist[j].n = hist[i].n
        /\ hist[k].op = "remove_factor" /\ hist[k].err = "ValueError"
        /\ RemovedId(hist[l], hist[i].n)
        /\ Added(hist[m]) /\ hist[m].n = hist[i].n

(***************************************************************************)
(* STD: the count model (network.py 223-311)                               *)
(***************************************************************************)

\* The longest gene list, the largest num_factors, the most covariate
\* groups, the most categories of a group, and the number of joint draws
\* resample can make beside the all-zero one.
MaxGenes == 2
MaxFactors == 2
MaxGroups == 2
MaxCats == 2
MaxDraw == 1

\* A tensor whose entries all equal `fill`; `expr` names data computed from
\* the gene baseline.
Tensor(shape, fill) == [kind |-> "Tensor", shape |-> shape, fill |-> fill,
                        expr |-> ""]

\* A covariate group (name, categories) with k categories.
Group(k) == [name |-> "covariate", cats |-> [i \in 1..k |-> i]]

\* The `covariates` argument: None, or a list of groups.
CovariateArgs ==
    {None} \cup
    {[kind |-> "list", items |-> [i \in 1..n |-> Group(ks[i])]] :
        n \in 0..MaxGroups, ks \in [1..MaxGroups -> 0..MaxCats]}

\* The `gene_baseline` argument: None, a vector or a matrix.
BaselineArgs ==
    {None} \cup
    {[kind |-> "ndarray", shape |-> <<n>>] : n \in 1..MaxGenes} \cup
    {[kind |-> "ndarray", shape |-> <<n, 1>>] : n \in 1..MaxGenes}

Parameter(data, requires_grad) ==
    [kind |-> "Parameter", data |-> data, requires_grad |-> requires_grad]

_make_covariate_learns_every_prior(o, name, shape, learn_prior) ==
    LET v == [kind |-> "Variable", shape |-> shape,
              loc |-> name \o "_q_mu", scale |-> name \o "_q_sd",
              value |-> 0, sampled |-> FALSE]
        p == [kind |-> "Distribution",
              loc |-> name \o "_p_mu", scale |-> name \o "_p_sd"]
        r == _register_latent(o.latents, o.attrs, v, p, name, TRUE)
        new == [n \in {name \o "_q_mu", name \o "_q_sd",
                       name \o "_p_mu", name \o "_p_sd"} |->
                  IF n = name \o "_q_mu"
                  THEN Parameter(Tensor(shape, 0), TRUE)
                  ELSE IF n = name \o "_q_sd"
                  THEN Parameter(Tensor(shape, 0 - 5), TRUE)
                  ELSE Parameter(Tensor(<<>>, 0), TRUE)]
    IN [latents |-> r.latents,
        attrs |-> r.attrs,
        params |-> [n \in DOMAIN o.params \cup DOMAIN new |->
                      IF n \in DOMAIN new THEN new[n] ELSE o.params[n]],
        err |-> IF o.err # "none" THEN o.err ELSE r.err]

\* _make_covariate on the object o under construction.
_make_covariate(o, name, shape, learn_prior) ==
    LET v == [kind |-> "Variable", shape |-> shape,
              loc |-> name \o "_q_mu", scale |-> name \o "_q_sd",
              value |-> 0, sampled |-> FALSE]
        p == [kind |-> "Distribution",
              loc |-> name \o "_p_mu", scale |-> name \o "_p_sd"]
        r == _register_latent(o.latents, o.attrs, v, p, name, TRUE)
        new == [n \in {name \o "_q_mu", name \o "_q_sd",
                       name \o "_p_mu", name \o "_p_sd"} |->
                  IF n = name \o "_q_mu"
                  THEN Parameter(Tensor(shape, 0), TRUE)
                  ELSE IF n = name \o "_q_sd"
                  THEN Parameter(Tensor(shape, 0 - 5), TRUE)
                  ELSE Parameter(Tensor(<<>>, 0), learn_prior)]
    IN [latents |-> r.latents,
        attrs |-> r.attrs,
        params |-> [n \in DOMAIN o.params \cup DOMAIN new |->
                      IF n \in DOMAIN new THEN new[n] ELSE o.params[n]],
        err |-> IF o.err # "none" THEN o.err ELSE r.err]

\* reduce(op.add, s) for a non-empty s.
RECURSIVE reduce_add(_)
reduce_add(s) ==
    IF Len(s) = 1 THEN s[1]
    ELSE reduce_add(<<s[1] + s[2]>> \o SubSeq(s, 3, Len(s)))

n_fe_groups(covariates) == Len(covariates.items)

n_fe(covariates) ==
    reduce_add([i \in 1..Len(covariates.items) |->
                  Len(covariates.items[i].cats)])

\* The error the length check of gene_baseline raises: building the message
\* of the ValueError reads gene_baseline.shape[1].
baseline_error(gene_baseline, genes) ==
    IF gene_baseline = None THEN "none"
    ELSE IF gene_baseline.shape[1] # genes
    THEN (IF Len(gene_baseline.shape) < 2 THEN "IndexError" ELSE "ValueError")
    ELSE "none"

set_data(params, name, shape, expr) ==
    [params EXCEPT ![name].data =
        [kind |-> "Tensor", shape |-> shape, fill |-> 0, expr |-> expr]]

\* STD.__init__(genes, num_factors, gene_baseline, covariates), genes being
\* the length of the gene list: the object built and the error raised.
STD_init(genes, num_factors, gene_baseline, covariates) ==
    LET o0 == [latents |-> <<>>, attrs |-> [n \in {} |-> None],
               params |-> [n \in {} |-> None], err |-> "none"]
        o1 == _make_covariate(o0, "r", <<1>>, TRUE)
        o2 == _make_covariate(o1, "rg", <<genes>>, TRUE)
        o3 == _make_covariate(o2, "rt", <<num_factors>>, FALSE)
        o4 == _make_covariate(o3, "rgt", <<genes, num_factors>>, FALSE)
        o5 == _make_covariate(o4, "l", <<1>>, TRUE)
        o6 == _make_covariate(o5, "lg", <<genes>>, TRUE)
        has == covariates # None /\ Len(covariates.items) > 0
        e1 == _make_covariate(o6, "reff", <<n_fe(covariates)>>, TRUE)
        e2 == _make_covariate(e1, "leff", <<n_fe(covariates)>>, TRUE)
        e3 == _make_covariate(e2, "rgeff", <<n_fe(covariates), genes>>, FALSE)
        e4 == _make_covariate(e3, "lgeff", <<n_fe(covariates), genes>>, FALSE)
        o == IF has THEN e4 ELSE o6
        berr == baseline_error(gene_baseline, genes)
        lgb == IF gene_baseline = None THEN <<>> ELSE gene_baseline.shape
        seeded ==
            IF gene_baseline = None THEN o.params
            ELSE set_data(set_data(set_data(set_data(o.params,
                    "r_q_mu", <<1>>, "lgb_mean"),
                    "r_p_mu", <<1>>, "lgb_mean"),
                    "rg_q_mu", lgb, "lgb - lgb_mean"),
                    "rg_p_mu", lgb, "lgb - lgb_mean")
    IN IF o.err # "none" THEN [err |-> o.err]
       ELSE IF berr # "none" THEN [err |-> berr]
       ELSE [err |-> "none",
             latents |-> o.latents,
             attrs |-> o.attrs,
             obj |-> [kind |-> "STD",
                      genes |-> genes,
                      _covariates |-> IF has THEN covariates.items ELSE <<>>,
                      params |-> seeded]]

\* resample: every registered Variable is sampled; latent i of the list
\* draws the value draw * i.
resample(ls, at, draw) ==
    [n \in DOMAIN at |->
        IF \E i \in 1..Len(ls) : ls[i] = n
        THEN [at[n] EXCEPT !.value = draw * (CHOOSE i \in 1..Len(ls) : ls[i] = n),
                           !.sampled = TRUE]
        ELSE at[n]]

\* STD.forward(x, effects) on the resampled attributes: the distribution
\* returned, or the error raised.  The rate is kept as
\* (x @ exp(log_rate_gt).t()) * exp(log_effect).
forward(at, x, effects) ==
    LET log_rate_gt == Tensor(<<at["rgt"].shape[1], at["rgt"].shape[2]>>,
                              at["r"].value + at["rg"].value
                              + at["rt"].value + at["rgt"].value)
        logit == Tensor(<<1, at["lg"].shape[1]>>,
                        at["l"].value + at["lg"].value)
        rows == x.shape[1]
        cols == effects.shape[2]
    IN IF x.shape[2] # log_rate_gt.shape[2] THEN [err |-> "RuntimeError"]
       ELSE IF effects = None
       THEN [err |-> "none", kind |-> "NegativeBinomial",
             rate |-> [x |-> x, log_rate_gt |-> log_rate_gt,
                       log_effect |-> Tensor(<<rows, log_rate_gt.shape[1]>>, 0)],
             logits |-> logit]
       ELSE IF {"reff", "rgeff", "leff", "lgeff"} \ DOMAIN at # {}
       THEN [err |-> "AttributeError"]
       ELSE IF cols # at["rgeff"].shape[1] THEN [err |-> "RuntimeError"]
       ELSE [err |-> "none", kind |-> "NegativeBinomial",
             rate |-> [x |-> x, log_rate_gt |-> log_rate_gt,
                       log_effect |->
                           Tensor(<<rows, at["rgeff"].shape[2]>>,
                                  cols * effects.fill
                                  * (at["reff"].value + at["rgeff"].value))],
             logits |-> Tensor(<<rows, at["lgeff"].shape[2]>>,
                               logit.fill
                               + cols * effects.fill
                                 * (at["leff"].value + at["lgeff"].value))]

\* One construction is followed.
Construct(genes, num_factors, gene_baseline, covariates) ==
    LET r == STD_init(genes, num_factors, gene_baseline, covariates)
    IN /\ std = None
       /\ ret.op = "__init__"
       /\ std' = IF r.err = "none" THEN r.obj ELSE None
       /\ latents' = IF r.err = "none" THEN r.latents ELSE <<>>
       /\ attrs' = IF r.err = "none" THEN r.attrs ELSE [n \in {} |-> None]
       /\ ret' = [op |-> "STD.__init__", err |-> r.err,
                  genes |-> genes, num_factors |-> num_factors,
                  gene_baseline |-> gene_baseline, covariates |-> covariates]
       /\ UNCHANGED passed

\* One forward pass on the constructed object is followed: a pass resamples
\* every latent, so it does not depend on the passes before it.
Forward(x, effects, draw) ==
    LET at == resample(latents, attrs, draw)
        r == forward(at, x, effects)
    IN /\ std # None
       /\ ret.op = "STD.__init__"
       /\ attrs' = at
       /\ ret' = [op |-> "forward", err |-> r.err, x |-> x,
                  effects |-> effects, val |-> r]
       /\ UNCHANGED <<latents, passed, std>>

\* The effects matrices passed to forward: None, or one row of zeros or of
\* ones with c columns.
EffectsArgs ==
    {None} \cup {Tensor(<<1, c>>, f) : c \in 0..MaxCats, f \in {0, 1}}

NextSTD ==
    \/ /\ std = None
       /\ \E genes \in 1..MaxGenes, num_factors \in 1..MaxFactors,
             gene_baseline \in BaselineArgs, covariates \in CovariateArgs :
             Construct(genes, num_factors, gene_baseline, covariates)
       /\ UNCHANGED <<varsST, varsPool, varsPyro, varsView, varsEnc>>
    \/ /\ std # None
       /\ \E t \in 1..MaxFactors, effects \in EffectsArgs, draw \in 0..MaxDraw :
             Forward(Tensor(<<1, t>>, 1), effects, draw)
       /\ UNCHANGED <<varsST, varsPool, varsPyro, varsView, varsEnc>>

SpecSTD == Init /\ [][NextSTD]_vars

Constructed == ret.op = "STD.__init__" /\ ret.err = "none"

BaseLatents == {"r", "rg", "rt", "rgt", "l", "lg"}

EffectLatents == {"reff", "leff", "rgeff", "lgeff"}

\* The categories of all groups of a covariate list, as (group, category).
Categories(items) ==
    {gc \in (1..Len(items)) \X (1..MaxCats) : gc[2] <= Len(items[gc[1]].cats)}

\* C7: an STD built with covariates None or [] registers exactly r, rg, rt,
\* rgt, l, lg and has no effect latent; built with a non-empty covariate
\* list it registers reff, leff, rgeff, lgeff in addition, the first
\* dimension of each being the number of categories of all groups together.
C7_EffectLatentsFollowCovariates ==
    Constructed =>
        /\ NoDuplicates(latents)
        /\ IF ret.covariates = None \/ ret.covariates.items = <<>>
           THEN /\ SeqToSet(latents) = BaseLatents
                /\ EffectLatents \cap DOMAIN attrs = {}
           ELSE /\ SeqToSet(latents) = BaseLatents \cup EffectLatents
                /\ \A e \in EffectLatents :
                      attrs[e].shape[1]
                          = Cardinality(Categories(ret.covariates.items))

\* An STD was built with two covariate groups of different sizes.
C7_Witness ==
    /\ Constructed
    /\ ret.covariates # None
    /\ Len(ret.covariates.items) = 2
    /\ Cardinality(Categories(ret.covariates.items)) = 3

\* forward was called with a design matrix of num_factors columns and a zero
\* effects matrix on an STD built without covariate groups.
ZeroEffectsNoCovariates ==
    /\ ret.op = "forward"
    /\ std._covariates = <<>>
    /\ ret.x.shape[2] = attrs["rt"].shape[1]
    /\ ret.effects # None
    /\ ret.effects.fill = 0

\* C8: forward with a zero effects matrix on an STD built without covariate
\* groups returns a distribution whose rate is design_matrix @ rate_gt.T and
\* whose logit is l + lg.
C8_ZeroEffectsGiveBaselineRate ==
    ZeroEffectsNoCovariates =>
        /\ ret.err = "none"
        /\ ret.val.rate.x = ret.x
        /\ ret.val.rate.log_rate_gt.fill
              = attrs["r"].value + attrs["rg"].value
                + attrs["rt"].value + attrs["rgt"].value
        /\ ret.val.rate.log_effect.fill = 0
        /\ ret.val.logits.fill = attrs["l"].value + attrs["lg"].value

\* C9: building an STD with a one-dimensional gene_baseline whose length is
\* not the number of genes raises the ValueError that reports the mismatch,
\* and no STD object results.
C9_BaselineMismatchRaisesValueError ==
    (/\ ret.op = "STD.__init__"
     /\ ret.gene_baseline # None
     /\ Len(ret.gene_baseline.shape) = 1
     /\ ret.gene_baseline.shape[1] # ret.genes) =>
        (ret.err = "ValueError" /\ std = None)

PriorLearned(id) ==
    /\ std.params[id \o "_p_mu"].requires_grad
    /\ std.params[id \o "_p_sd"].requires_grad

PriorFixed(id) ==
    /\ ~std.params[id \o "_p_mu"].requires_grad
    /\ ~std.params[id \o "_p_sd"].requires_grad

\* C14 (as amended): the prior mean and spread are learnable for r, rg, l, lg
\* and, when covariate groups are supplied, for reff and leff; they are fixed
\* for rt, rgt, rgeff and lgeff.
C14_MainTermsLearnTheirPrior ==
    Constructed =>
        \A id \in Registered :
            IF id \in {"r", "rg", "l", "lg", "reff", "leff"}
            THEN PriorLearned(id)
            ELSE PriorFixed(id)

\* C14 (as claimed): only r, rg, l, lg have learnable prior parameters; every
\* other registered latent, the effect-level ones included, has a fixed prior.
C14_OnlyBaseTermsLearnTheirPrior ==
    Constructed =>
        \A id \in Registered :
            IF id \in {"r", "rg", "l", "lg"}
            THEN PriorLearned(id)
            ELSE PriorFixed(id)

\* An STD was built with covariate groups, so with effect-level latents.
C14_Witness ==
    /\ Constructed
    /\ EffectLatents \subseteq Registered
    /\ BaseLatents \subseteq Registered

(***************************************************************************)
(* ST.model: the label pooling (st.py 138-148)                             *)
(***************************************************************************)

\* The most pixels of a label map and the largest label.
MaxPixels == 4
MaxLabel == 2

\* Matrices are sequences of rows.
Transpose(A) == [j \in 1..Len(A[1]) |-> [i \in 1..Len(A) |-> A[i][j]]]

MatMul(A, B) ==
    [i \in 1..Len(A) |->
        [j \in 1..Len(B[1]) |->
            SumSeq([k \in 1..Len(B) |-> A[i][k] * B[k][j]])]]

\* label.flatten() of a label map of h rows and w columns.
flatten(lbl) ==
    LET h == Len(lbl)
        w == Len(lbl[1])
    IN [p \in 1..(h * w) |-> lbl[((p - 1) \div w) + 1][((p - 1) % w) + 1]]

RECURSIVE SeqMax(_)
SeqMax(s) ==
    IF Len(s) = 1 THEN s[1]
    ELSE LET m == SeqMax(Tail(s)) IN IF s[1] > m THEN s[1] ELSE m

\* sparseonehot(labels): one row per entry, one column per class 0..max.
sparseonehot(labels) ==
    [p \in 1..Len(labels) |->
        [c \in 1..(SeqMax(labels) + 1) |-> IF labels[p] = c - 1 THEN 1 ELSE 0]]

\* r.permute(2, 1, 0).view(-1, r.shape[0]) of r indexed [factor][row][column].
permute_view_transposed(r) ==
    LET h == Len(r[1])
        w == Len(r[1][1])
    IN [p \in 1..(h * w) |->
          [m \in 1..Len(r) |-> r[m][((p - 1) % h) + 1][((p - 1) \div h) + 1]]]

\* r.permute(1, 2, 0).view(-1, r.shape[0]) of r indexed [factor][row][column].
permute_view(r) ==
    LET h == Len(r[1])
        w == Len(r[1][1])
    IN [p \in 1..(h * w) |->
          [m \in 1..Len(r) |-> r[m][((p - 1) \div w) + 1][((p - 1) % w) + 1]]]

\* _compute_sample_params(label, rim, rmg, lg), rmg_exp being rmg.exp():
\* the pooled rim[1:], rgs and the expanded lg.
_compute_sample_params(lbl, r, rmg_exp, lg) ==
    LET labelonehot == sparseonehot(flatten(lbl))
        summed == MatMul(Transpose(labelonehot), permute_view(r))
        rest == SubSeq(summed, 2, Len(summed))
        rgs == MatMul(rest, rmg_exp)
    IN [rim |-> rest, rgs |-> rgs, lg |-> [i \in 1..Len(rgs) |-> lg]]

\* The shapes (rows, columns) of the label maps.
Shapes == {hw \in (1..MaxPixels) \X (1..MaxPixels) : hw[1] * hw[2] <= MaxPixels}

LabelMaps ==
    UNION {[1..hw[1] -> [1..hw[2] -> 0..MaxLabel]] : hw \in Shapes}

RECURSIVE Pow2(_)
Pow2(n) == IF n = 0 THEN 1 ELSE 2 * Pow2(n - 1)

\* The scaled proportions of m factors on an h x w grid: all ones, or a value
\* of its own for every pixel.
RimArgs(m, h, w) ==
    {[f \in 1..m |-> [i \in 1..h |-> [j \in 1..w |-> 1]]],
     [f \in 1..m |-> [i \in 1..h |-> [j \in 1..w |->
                                        f * Pow2((i - 1) * w + j - 1)]]]}

\* One call is followed.
ComputeSampleParams(lbl, r, rmg_exp, lg) ==
    /\ pooled = None
    /\ label' = lbl
    /\ rim' = r
    /\ pooled' = _compute_sample_params(lbl, r, rmg_exp, lg)

NextPool ==
    /\ pooled = None
    /\ \E lbl \in LabelMaps, m \in 1..MaxFactors :
          \E r \in RimArgs(m, Len(lbl), Len(lbl[1])) :
              ComputeSampleParams(lbl, r, [f \in 1..m |-> <<f, f + 1>>],
                                  <<0, 1>>)
    /\ UNCHANGED <<varsV, varsST, varsSTD, varsPyro, varsView, varsEnc>>

SpecPool == Init /\ [][NextPool]_vars

Pixels == (1..Len(label)) \X (1..Len(label[1]))

LabelAt(px) == label[px[1]][px[2]]

\* C10: the pooled output has one row for every label k >= 1 and none for
\* label 0; the row of label k (row k - 1 counting from zero, the k-th of
\* the sequence) is the sum of the proportion vectors of exactly the pixels
\* whose label is k.
C10_PoolingSumsPixelsOfEachLabel ==
    pooled # None =>
        /\ Len(pooled.rim) = SeqMax(flatten(label))
        /\ \A k \in 1..Len(pooled.rim) :
              \A f \in 1..Len(rim) :
                  pooled.rim[k][f] =
                      SumOver({px \in Pixels : LabelAt(px) = k},
                              [px \in Pixels |-> rim[f][px[1]][px[2]]])

\* A 2 x 2 map with background and two labels was pooled over two factors
\* with a value of its own for every pixel.
C10_Witness ==
    /\ pooled # None
    /\ Len(label) = 2 /\ Len(label[1]) = 2
    /\ {LabelAt(px) : px \in Pixels} = {0, 1, 2}
    /\ label[1][2] # label[2][1]
    /\ Len(rim) = 2
    /\ rim[1][1][1] # rim[1][2][2]

(***************************************************************************)
(* ST.model and ST.guide over pyro's parameter store                       *)
(* (src/hssl/model/experiment/st.py).  The store is keyed by name and      *)
(* lives as long as the process: p.param and p.module return what is kept  *)
(* under a name when the name is known, and keep the given initial value   *)
(* otherwise.  A run is recorded by the sites it instantiates, in order,   *)
(* and by the stored parameters it was handed.                             *)
(***************************************************************************)

\* The number of add_factor / remove_factor calls followed between runs.
MaxPyroOps == 3
\* The number of runs of model / guide followed.
MaxRuns == 2
\* The largest dataset size self.n.
MaxN == 2
\* The largest number of slides in a batch.
MaxBatch == 2

\* The entries of a batch that model and guide read.
BatchKeys == {"image", "label", "data", "effects"}

\* The batches x: a dict with the entries read by model and guide, and
\* possibly one more; x['data'] has one count matrix per slide, each with
\* num_genes columns; x['effects'] has num_effects columns.
Batches ==
    [keys : {BatchKeys, BatchKeys \cup {"type"}},
     slides : {1, MaxBatch},
     num_genes : {MaxGenes},
     num_effects : {MaxCats}]

\* len(x) of a dict: the number of its keys.
len(x) == Cardinality(x.keys)

\* f'factor{n}'
factor_name(n) == "factor" \o ToString(n)

Put(f, k, v) == [a \in DOMAIN f \cup {k} |-> IF a = k THEN v ELSE f[a]]

zeros(shape) == [kind |-> "Tensor", fill |-> 0, shape |-> shape]
\* 1e-2 * t.ones(shape)
small_ones(shape) == [kind |-> "Tensor", fill |-> "1e-2", shape |-> shape]
\* tensor.float(): the same data as 32 bit floats.
float(tensor) == [kind |-> "Tensor", dtype |-> "float32", of |-> tensor]
\* 1e-2 * t.ones_like(tensor).float()
small_ones_like(tensor) ==
    [kind |-> "Tensor", dtype |-> "float32", fill |-> "1e-2", like |-> tensor]

\* The state of a run: the store, the sites instantiated so far and the
\* stored parameters handed out so far.
NewRun(st) == [store |-> st, sites |-> <<>>, used |-> [a \in {} |-> None]]

\* p.param(name, init) at the time now: the parameter kept under the name,
\* which is init only when the name was unknown.
param(rs, name, init, now) ==
    LET st == IF name \in DOMAIN rs.store
              THEN rs.store
              ELSE Put(rs.store, name,
                       [value |-> init, made |-> now])
    IN [rs EXCEPT !.store = st, !.used = Put(rs.used, name, st[name])]

\* p.module(name, module, update_module_params=True): the parameters of the
\* module are kept under its name, and the module is handed back with the
\* parameters kept there.
module(rs, name, init, now) ==
    LET st == IF name \in DOMAIN rs.store
              THEN rs.store
              ELSE Put(rs.store, name,
                       [value |-> init, made |-> now])
    IN [rs EXCEPT !.store = st, !.used = Put(rs.used, name, st[name])]

\* p.sample(name, ...) under the scale in effect.
sample(rs, name, scale) ==
    [rs EXCEPT !.sites = Append(@, [name |-> name, scale |-> scale])]

Unscaled == [num |-> 1, den |-> 1]

\* _get_scale_decoder
_get_scale_decoder(rs, now) ==
    module(rs, "scale", [kind |-> "Sequential", bias |-> "default_scale"], now)

\* _get_factor_decoder(in_channels, n): the last bias starts at the bias of
\* factor n.
_get_factor_decoder(rs, fs, n, now) ==
    module(rs, factor_name(n),
           [kind |-> "Sequential", bias |-> fs[n].bias], now)

Least(S) == CHOOSE a \in S : \A b \in S : a <= b

\* [self._get_factor_decoder(..., n) for n in self.factors]
RECURSIVE factor_decoders(_, _, _, _)
factor_decoders(rs, fs, ids, now) ==
    IF ids = {}
    THEN rs
    ELSE factor_decoders(_get_factor_decoder(rs, fs, Least(ids), now),
                         fs, ids \ {Least(ids)}, now)

\* [p.sample(f'factor{n}', Normal(0, 1).expand([num_genes]))
\*  for n in self.factors]
RECURSIVE model_factor_sites(_, _)
model_factor_sites(rs, ids) ==
    IF ids = {}
    THEN rs
    ELSE model_factor_sites(sample(rs, factor_name(Least(ids)), Unscaled),
                            ids \ {Least(ids)})

minibatch_over_n(x, n) == [num |-> x.slides, den |-> n]

\* self.n / len(x)
likelihood_scale(x, n) == [num |-> n, den |-> len(x)]

\* ST.model(x, z) on an ST with the factors fs and the dataset size n.
model(st, fs, x, n, now) ==
    LET r1 == sample(_get_scale_decoder(NewRun(st), now), "scale", Unscaled)
    IN IF DOMAIN fs = {}
       THEN [run |-> r1, err |-> "RuntimeError"]
       ELSE LET r2 == sample(factor_decoders(r1, fs, DOMAIN fs, now),
                             "rim", Unscaled)
                r3 == sample(model_factor_sites(r2, DOMAIN fs),
                             "rmg", Unscaled)
                r4 == sample(sample(r3, "rgeff", Unscaled),
                             "lgeff", Unscaled)
                sc == likelihood_scale(x, n)
                r5 == sample(r4, "ST/_sample_image", sc)
                r6 == sample(r5, "ST/xsg", sc)
            IN [run |-> r6, err |-> "none"]

\* The default that the guide starts the mean of a factor from.
factor_default(f, num_genes) ==
    IF f.default = None THEN zeros(<<num_genes>>) ELSE f.default

\* The loop of guide over self.factors.items().
RECURSIVE guide_factor_sites(_, _, _, _, _)
guide_factor_sites(rs, fs, ids, num_genes, now) ==
    IF ids = {}
    THEN rs
    ELSE LET n == Least(ids)
             d == factor_default(fs[n], num_genes)
             r1 == param(rs, factor_name(n) \o "_mu", float(d), now)
             r2 == param(r1, factor_name(n) \o "_sd", small_ones_like(d), now)
         IN guide_factor_sites(sample(r2, factor_name(n), Unscaled),
                               fs, ids \ {n}, num_genes, now)

\* The loop of guide over rgeff and lgeff.
guide_effect_site(rs, name, dim, now) ==
    sample(param(param(rs, name \o "_mu", zeros(dim), now),
                 name \o "_sd", small_ones(dim), now),
           name, Unscaled)

\* ST.guide(x) on an ST with the factors fs.
guide(st, fs, x, now) ==
    LET dim == <<x.num_effects, x.num_genes>>
        r1 == guide_effect_site(NewRun(st), "rgeff", dim, now)
        r2 == guide_effect_site(r1, "lgeff", dim, now)
        r3 == guide_factor_sites(r2, fs, DOMAIN fs, x.num_genes, now)
        r4 == module(r3, "expression_encoder",
                     [kind |-> "Sequential", bias |-> "default"], now)
    IN [run |-> r4, err |-> "none"]

\* The number of runs so far.
Runs == IF trace = None THEN 0 ELSE trace.runs

Model(x, n) ==
    LET r == model(store, factors, x, n, Len(hist))
    IN /\ store' = r.run.store
       /\ trace' = [op |-> "model", err |-> r.err, at |-> Len(hist),
                    runs |-> Runs + 1,
                    x |-> x, n |-> n, sites |-> r.run.sites,
                    used |-> r.run.used]

Guide(x) ==
    LET r == guide(store, factors, x, Len(hist))
    IN /\ store' = r.run.store
       /\ trace' = [op |-> "guide", err |-> r.err, at |-> Len(hist),
                    runs |-> Runs + 1,
                    x |-> x, n |-> 0, sites |-> r.run.sites,
                    used |-> r.run.used]

NextPyro ==
    \/ /\ Len(hist) < MaxPyroOps
       /\ \E factor \in FactorArgs : AddFactor(factor)
       /\ UNCHANGED <<varsV, varsSTD, varsPool, varsPyro, varsView, varsEnc>>
    \/ /\ Len(hist) < MaxPyroOps
       /\ \E n \in 0..count : RemoveFactor(n)
       /\ UNCHANGED <<varsV, varsSTD, varsPool, varsPyro, varsView, varsEnc>>
    \/ /\ Runs < MaxRuns
       /\ \E x \in Batches, n \in {1, MaxN} : Model(x, n)
       /\ UNCHANGED <<varsV, varsST, varsSTD, varsPool, varsView, varsEnc>>
    \/ /\ Runs < MaxRuns
       /\ \E x \in Batches : Guide(x)
       /\ UNCHANGED <<varsV, varsST, varsSTD, varsPool, varsView, varsEnc>>

SpecPyro == Init /\ [][NextPyro]_vars

ModelRan == trace # None /\ trace.op = "model" /\ trace.err = "none"

GuideRan == trace # None /\ trace.op = "guide" /\ trace.err = "none"

\* No factor was added or removed since the last run.
RunIsCurrent == trace # None /\ trace.at = Len(hist)

\* The sites of the observed image and of the observed counts.
LikelihoodSites == {"ST/_sample_image", "ST/xsg"}

SitesNamed(names) ==
    {i \in 1..Len(trace.sites) : trace.sites[i].name \in names}

LastAdd(n) ==
    CHOOSE i \in 1..Len(hist) :
        /\ Added(hist[i]) /\ hist[i].n = n
        /\ \A j \in (i + 1)..Len(hist) : ~(Added(hist[j]) /\ hist[j].n = n)

\* The id of the active factor n was held by a removed factor before.
Recycled(n) == \E i \in 1..Len(hist) : i < LastAdd(n) /\ RemovedId(hist[i], n)

\* The parameter handed to the run under the name was made for the active
\* factor n, from the value init.
FreshFor(n, name, init) ==
    /\ name \in DOMAIN trace.used
    /\ trace.used[name].made >= LastAdd(n)
    /\ trace.used[name].value = init

\* C13: in a run after an id n was recycled, the decoder 'factor{n}' and the
\* guide parameters 'factor{n}_mu' / 'factor{n}_sd' are fresh: made for the
\* new factor, from its bias and its default.
C13_RecycledFactorParametersAreFresh ==
    (RunIsCurrent /\ trace.err = "none") =>
        \A n \in Active :
            Recycled(n) =>
                IF trace.op = "model"
                THEN FreshFor(n, factor_name(n),
                              [kind |-> "Sequential",
                               bias |-> factors[n].bias])
                ELSE LET d == factor_default(factors[n], trace.x.num_genes)
                     IN /\ FreshFor(n, factor_name(n) \o "_mu", float(d))
                        /\ FreshFor(n, factor_name(n) \o "_sd",
                                    small_ones_like(d))

\* The factor sites of the last run are those of the ids in expected, one
\* each.
FactorSitesAre(expected) ==
    \A n \in 0..count :
        Cardinality(SitesNamed({factor_name(n)})) =
            IF n \in expected THEN 1 ELSE 0

\* The last run instantiated one site 'factor{n}' for every active factor
\* and none for another id; the model also one decoder 'factor{n}'.  A model
\* without active factors fails before its factor sites.
SitesFollowActiveFactors ==
    RunIsCurrent =>
        /\ FactorSitesAre(IF trace.err = "none" THEN Active ELSE {})
        /\ ModelRan =>
              \A n \in 0..count :
                  factor_name(n) \in DOMAIN trace.used <=> n \in Active

\* C16: after any add_factor / remove_factor calls, model and guide each
\* instantiate one site 'factor{n}' per active factor (the model also one
\* decoder) and none for a removed id, and the guide mean of a factor whose
\* default is None is a zero vector of gene length.
C16_FactorSitesFollowActiveFactors ==
    /\ SitesFollowActiveFactors
    /\ (RunIsCurrent /\ GuideRan) =>
          \A n \in Active :
              factors[n].default = None =>
                  trace.used[factor_name(n) \o "_mu"].value =
                      float(zeros(<<trace.x.num_genes>>))

(***************************************************************************)
(* The ST.factors property (src/hssl/model/experiment/st.py) and what a    *)
(* caller can do with the dictionary it returns.  A returned dictionary    *)
(* is recorded with its items and with whether it is the object kept in    *)
(* the ST (shared) or an object of its own.                                *)
(***************************************************************************)

\* The number of add_factor / remove_factor calls followed around views.
MaxViewOps == 2

\* Returning the dictionary itself.
same_object(d) == [items |-> d, shared |-> TRUE]

\* deepcopy(d): a dictionary of its own, with tuples and tensors of its own.
deepcopy(d) == [items |-> d, shared |-> FALSE]

\* What a caller may store in a returned dictionary.
ViewValues ==
    {[kind |-> "tuple", bias |-> 0, default |-> None],
     [kind |-> "tuple", bias |-> 1,
      default |-> [kind |-> "Tensor", data |-> "v"]]}

\* A write through the returned dictionary reaches the dictionary of the ST
\* when the two are one object.
Through(v) == IF v.shared THEN v.items ELSE factors

\* view = st.factors
GetFactors ==
    /\ view' = deepcopy(factors)
    /\ factors' = Through(view')

\* view[n] = value
ViewSetItem(n, value) ==
    /\ view # None
    /\ view' = [view EXCEPT !.items = Put(view.items, n, value)]
    /\ factors' = Through(view')

\* del view[n]
ViewDelItem(n) ==
    /\ view # None
    /\ n \in DOMAIN view.items
    /\ view' = [view EXCEPT
                  !.items = [k \in DOMAIN view.items \ {n} |-> view.items[k]]]
    /\ factors' = Through(view')

\* An in-place change of the default tensor view[n][1].
ViewMutateDefault(n) ==
    /\ view # None
    /\ n \in DOMAIN view.items
    /\ view.items[n].default # None
    /\ view.items[n].default.data = "v"
    /\ view' = [view EXCEPT !.items[n].default.data = "changed"]
    /\ factors' = Through(view')

NextView ==
    \/ /\ Len(hist) < MaxViewOps
       /\ \E factor \in FactorArgs : AddFactor(factor)
       /\ UNCHANGED <<varsV, varsSTD, varsPool, varsPyro, varsView, varsEnc>>
    \/ /\ Len(hist) < MaxViewOps
       /\ \E n \in 0..count : RemoveFactor(n)
       /\ UNCHANGED <<varsV, varsSTD, varsPool, varsPyro, varsView, varsEnc>>
    \/ /\ GetFactors
       /\ UNCHANGED <<chain, count, hist>>
       /\ UNCHANGED <<varsV, varsSTD, varsPool, varsPyro, varsEnc>>
    \/ /\ view # None
       /\ \E n \in 0..count, value \in ViewValues : ViewSetItem(n, value)
       /\ UNCHANGED <<chain, count, hist>>
       /\ UNCHANGED <<varsV, varsSTD, varsPool, varsPyro, varsEnc>>
    \/ /\ view # None
       /\ \E n \in 0..count : ViewDelItem(n)
       /\ UNCHANGED <<chain, count, hist>>
       /\ UNCHANGED <<varsV, varsSTD, varsPool, varsPyro, varsEnc>>
    \/ /\ view # None
       /\ \E n \in 0..count : ViewMutateDefault(n)
       /\ UNCHANGED <<chain, count, hist>>
       /\ UNCHANGED <<varsV, varsSTD, varsPool, varsPyro, varsEnc>>

SpecView == Init /\ [][NextView]_vars

\* C12: reading ST.factors and adding, deleting or replacing entries of the
\* dictionary it returned, or changing a default tensor in it, leaves the
\* factors of the ST, their defaults and the ids that later add_factor
\* calls assign (the counter) as they were.
C12_FactorsIsASnapshot ==
    [][(view' # view /\ hist' = hist) =>
           /\ factors' = factors
           /\ chain' = chain
           /\ count' = count]_vars

\* A caller has deleted an active id from a returned dictionary, stored an
\* id there that is not active, and changed the default tensor of an active
\* factor in it.
C12_Witness ==
    /\ view # None
    /\ \E n \in Active : n \notin DOMAIN view.items
    /\ \E n \in DOMAIN view.items : n \notin Active
    /\ \E n \in Active \cap DOMAIN view.items :
          /\ factors[n].default # None
          /\ view.items[n].default # None
          /\ view.items[n].default # factors[n].default

(***************************************************************************)
(* ST.guide: the scatter of the encoded counts onto the pixels (encode,    *)
(* src/hssl/model/experiment/st.py).  A count matrix has one row per spot; *)
(* the spot of row i (from 1) carries the label i.  The encoder network is *)
(* stood for by a function that encodes every row on its own, two          *)
(* channels wide, with different codes for different rows.                 *)
(***************************************************************************)

\* The count matrices of s spots and g genes: no counts at all, or a count
\* of its own for every spot and gene.
DataArgs(s, g) ==
    {[i \in 1..s |-> [j \in 1..g |-> 0]],
     [i \in 1..s |-> [j \in 1..g |-> (i - 1) * g + j]]}

\* The label maps of a slide with s spots.
SpotLabelMaps(s) ==
    UNION {[1..hw[1] -> [1..hw[2] -> 0..s]] : hw \in Shapes}

\* t.tensor([1., *[0.] * data.shape[1]])
missing_row(data) == <<1>> \o [j \in 1..Len(data[1]) |-> 0]

pad_right_bottom(data) ==
    [i \in 1..(Len(data) + 1) |->
        IF i = Len(data) + 1
        THEN [j \in 1..(Len(data[1]) + 1) |-> 0]
        ELSE data[i] \o <<0>>]

\* t.nn.functional.pad(data, (1, 0, 1, 0)): a column of zeros on the left
\* and a row of zeros on top.
pad_left_top(data) ==
    [i \in 1..(Len(data) + 1) |->
        IF i = 1
        THEN [j \in 1..(Len(data[1]) + 1) |-> 0]
        ELSE <<0>> \o data[i - 1]]

\* data_with_missing[0] = missing
set_first_row(m, row) == [i \in 1..Len(m) |-> IF i = 1 THEN row ELSE m[i]]

\* The code of a row: its entries as digits.
RECURSIVE Code(_)
Code(row) ==
    IF row = <<>>
    THEN 0
    ELSE Head(row) + (MaxLabel * MaxGenes + 1) * Code(Tail(row))

\* expression_encoder(rows): every row encoded on its own.
expression_encoder(rows) ==
    [i \in 1..Len(rows) |-> <<Code(rows[i]), Code(rows[i]) + 1>>]

\* sparseonehot(labels, classes)
sparseonehot_classes(labels, classes) ==
    [p \in 1..Len(labels) |->
        [c \in 1..classes |-> IF labels[p] = c - 1 THEN 1 ELSE 0]]

\* m.reshape(-1, h, w) of a matrix with h * w columns.
reshape_rows(m, h, w) ==
    [e \in 1..Len(m) |->
        [i \in 1..h |-> [j \in 1..w |-> m[e][(i - 1) * w + j]]]]

\* encode(data, label) of ST.guide.
encode(data, lbl) ==
    LET missing == missing_row(data)
        data_with_missing == set_first_row(pad_left_top(data), missing)
        encoded_data == expression_encoder(data_with_missing)
        labelonehot == sparseonehot_classes(flatten(lbl), Len(encoded_data))
        expanded == MatMul(labelonehot, encoded_data)
    IN [data_with_missing |-> data_with_missing,
        result |-> reshape_rows(Transpose(expanded), Len(lbl), Len(lbl[1]))]

\* One call is followed.
Encode(data, lbl) ==
    LET r == encode(data, lbl)
    IN enc' = [data |-> data, label |-> lbl,
               data_with_missing |-> r.data_with_missing,
               result |-> r.result]

NextEnc ==
    /\ enc = None
    /\ \E s \in 1..MaxLabel, g \in 1..MaxGenes :
          \E data \in DataArgs(s, g), lbl \in SpotLabelMaps(s) :
              Encode(data, lbl)
    /\ UNCHANGED <<varsV, varsST, varsSTD, varsPool, varsPyro, varsView>>

SpecEnc == Init /\ [][NextEnc]_vars

\* The row that the pixels of label k stand for: the sentinel for label 0,
\* the counts of the spot of label k behind indicator 0 otherwise.
RowOfLabel(k) ==
    IF k = 0
    THEN <<1>> \o [j \in 1..Len(enc.data[1]) |-> 0]
    ELSE <<0>> \o enc.data[k]

\* C15: encode gives every pixel of label k >= 1 the encoding of the counts
\* of the spot carrying label k (row k-1 of the count matrix, from 0) and
\* every pixel of label 0 the encoding of the sentinel row (1, 0, ..., 0);
\* the indicator of every spot row is 0.
C15_EncodeScattersSpotEncodings ==
    enc # None =>
        /\ \A i \in 1..Len(enc.label), j \in 1..Len(enc.label[1]) :
              \A e \in 1..2 :
                  enc.result[e][i][j] =
                      <<Code(RowOfLabel(enc.label[i][j])),
                        Code(RowOfLabel(enc.label[i][j])) + 1>>[e]
        /\ \A k \in 1..Len(enc.data) :
              enc.data_with_missing[k + 1] = <<0>> \o enc.data[k]
        /\ enc.data_with_missing[1][1] = 1

\* A slide of two spots with different counts, with pixels of the
\* background and of both spots, more than one pixel wide and high.
C15_Witness ==
    /\ enc # None
    /\ Len(enc.data) = 2
    /\ enc.data[1] # enc.data[2]
    /\ Len(enc.label) > 1 /\ Len(enc.label[1]) > 1
    /\ \A k \in 0..2 :
          \E i \in 1..Len(enc.label), j \in 1..Len(enc.label[1]) :
              enc.label[i][j] = k

====
